---- MODULE Spec2Model ----
(***************************************************************************)
(* pybusta: the index builder, the store and the query engine of           *)
(* src/src/pybusta/core/book_index.py and src/src/pybusta/core/database.py *)
(* as a state machine.                                                     *)
(*                                                                         *)
(* Text is a sequence of one-character strings.  The store is the          *)
(* committed content of the three tables (books, book_search, settings)    *)
(* and of the FTS shadow; a SQLAlchemy session is the unit of work that    *)
(* is pending between two commits (the session factory is created with     *)
(* autoflush=False, database.py:116-120, so nothing reaches the database   *)
(* before a commit).                                                       *)
(***************************************************************************)
EXTENDS Integers, Sequences, FiniteSets, TLC

\* ------------------------------------------------------------------ bounds

\* Storage faults (a failing SELECT or COMMIT) injected in one behaviour.
MaxFaults == 1

\* extract_book is called while the output directory holds at most this many
\* files.
MaxFiles == 1

\* The commit interval of _process_index_file (1000 in book_index.py:192),
\* scaled down so that a batch commit happens inside the entry files below.
BatchSize == 2

\* ------------------------------------------------------------------- text

E == << >>

LowerCs == <<"a","b","c","d","e","f","g","h","i","j","k","l","m",
             "n","o","p","q","r","s","t","u","v","w","x","y","z">>

UpperCs == <<"A","B","C","D","E","F","G","H","I","J","K","L","M",
             "N","O","P","Q","R","S","T","U","V","W","X","Y","Z">>

DigitCs == <<"0","1","2","3","4","5","6","7","8","9">>

IndexIn(cs, c) == CHOOSE i \in 1..Len(cs) : cs[i] = c

Among(cs, c) == \E i \in 1..Len(cs) : cs[i] = c

ToLower == [c \in {UpperCs[i] : i \in 1..Len(UpperCs)} |-> LowerCs[IndexIn(UpperCs, c)]]

ToUpper == [c \in {LowerCs[i] : i \in 1..Len(LowerCs)} |-> UpperCs[IndexIn(LowerCs, c)]]

\* str.lower / SQL lower() on one ASCII character
LowerC(c) == IF c \in DOMAIN ToLower THEN ToLower[c] ELSE c

\* str.upper on one ASCII character
UpperC(c) == IF c \in DOMAIN ToUpper THEN ToUpper[c] ELSE c

Lower(s) == [i \in 1..Len(s) |-> LowerC(s[i])]

Upper(s) == [i \in 1..Len(s) |-> UpperC(s[i])]

Digits == {DigitCs[i] : i \in 1..Len(DigitCs)}

IsDigit(c) == c \in Digits

\* str.isalnum on one character
IsAlnum(c) == c \in DOMAIN ToLower \/ c \in DOMAIN ToUpper \/ IsDigit(c)

IsSpace(c) == c = " "

RECURSIVE LStrip(_)
LStrip(s) == IF s # E /\ IsSpace(Head(s)) THEN LStrip(Tail(s)) ELSE s

RECURSIVE RStrip(_)
RStrip(s) ==
    IF s # E /\ IsSpace(s[Len(s)]) THEN RStrip(SubSeq(s, 1, Len(s) - 1)) ELSE s

\* str.strip()
Strip(s) == RStrip(LStrip(s))

\* str.replace(c, d) for a one-character c and a text d
RECURSIVE Replace(_, _, _)
Replace(s, c, d) ==
    IF s = E THEN E
    ELSE (IF Head(s) = c THEN d ELSE <<Head(s)>>) \o Replace(Tail(s), c, d)

\* the value of a text of decimal digits
RECURSIVE DigitsValue(_, _)
DigitsValue(s, acc) ==
    IF s = E THEN acc
    ELSE DigitsValue(Tail(s), 10 * acc + (IndexIn(DigitCs, Head(s)) - 1))

\* int(s) succeeds: optional surrounding blanks, an optional sign, digits
Unsigned(s) == IF s # E /\ Head(s) \in {"+", "-"} THEN Tail(s) ELSE s

IsIntText(s) ==
    LET u == Unsigned(Strip(s))
    IN  u # E /\ \A i \in 1..Len(u) : IsDigit(u[i])

\* int(s) for a text on which it succeeds
IntOf(s) ==
    LET t == Strip(s)
        v == DigitsValue(Unsigned(t), 0)
    IN  IF t # E /\ Head(t) = "-" THEN 0 - v ELSE v

\* ----------------------------------------------------------- catalog parser

\* One catalog line is the sequence of its '\x04'-separated fields.
IsBlankLine(fields) == Len(fields) = 1 /\ Strip(fields[1]) = E

NoData == [ok |-> FALSE]

\* _parse_book_metadata without the cleaning of the author
ParseBookMetadata_NoClean(fields, archive_name) ==
    IF Len(fields) < 12 THEN NoData
    ELSE LET author == Strip(fields[1])
             genre  == Strip(Replace(Strip(fields[2]), ":", E))
             title  == Strip(Strip(fields[3]))
             bookid == Strip(fields[6])
             size   == IF IsIntText(Strip(fields[7])) THEN IntOf(Strip(fields[7])) ELSE 0
         IN  IF bookid = E \/ title = E \/ author = E THEN NoData
             ELSE [ok |-> TRUE, bookid |-> bookid, author |-> author,
                   title |-> title, genre |-> genre, size |-> size,
                   format |-> Strip(fields[10]), language |-> Strip(fields[12]),
                   archive_file |-> archive_name]

\* _parse_book_metadata: None, or the cleaned book_data mapping
ParseBookMetadata(fields, archive_name) ==
    IF Len(fields) < 12 THEN NoData
    ELSE LET author == Strip(Replace(Replace(Strip(fields[1]), ",", <<" ">>), ":", E))
             genre  == Strip(Replace(Strip(fields[2]), ":", E))
             title  == Strip(Strip(fields[3]))
             bookid == Strip(fields[6])
             size   == IF IsIntText(Strip(fields[7])) THEN IntOf(Strip(fields[7])) ELSE 0
         IN  IF bookid = E \/ title = E \/ author = E THEN NoData
             ELSE [ok |-> TRUE, bookid |-> bookid, author |-> author,
                   title |-> title, genre |-> genre, size |-> size,
                   format |-> Strip(fields[10]), language |-> Strip(fields[12]),
                   archive_file |-> archive_name]

\* the BookRecord that _store_book_data builds from a book_data mapping
BookRecordOf(d) ==
    [id |-> IntOf(d.bookid), title |-> d.title, author |-> d.author,
     genre |-> d.genre, language |-> d.language, format |-> d.format,
     size |-> d.size, archive_file |-> d.archive_file]

\* the BookSearchRecord that _store_book_data builds (rowid left unset)
SearchRecordOf(d) ==
    [id |-> IntOf(d.bookid), author |-> Upper(d.author),
     title |-> Upper(d.title), language |-> d.language]

\* ------------------------------------------------------------- the bundles

Line12(author, genre, title, bookid, size, format, language) ==
    <<author, genre, title, E, E, bookid, size, E, E, format, E, language>>

TAnna == <<"A","n","n","a"," ","K","a","r","e","n","i","n","a">>

TKaren == <<"K","a","r","e","n">>

TWar == <<"W","a","r">>

Fb2 == <<"f","b","2">>

Ru == <<"r","u">>

En == <<"e","n">>

Epub == <<"e","p","u","b">>

LineAnna ==
    Line12(<<"T","o","l",","," ","L">>, <<"s","f",":">>, TAnna, <<"1">>,
           <<"1","0">>, Fb2, Ru)

LineKaren ==
    Line12(<<"K","a","r","e","n"," ","P","o","e">>, <<"s","f">>, TKaren, <<"2">>,
           <<"x">>, Fb2, En)

\* a second line with the id of LineAnna
LineWar ==
    Line12(<<"T","o","l"," ","L">>, <<"s","f">>, TWar, <<" ","1">>, <<"7">>, Fb2, Ru)

LineThree ==
    Line12(<<"P","o","e">>, E, <<"O","d","e">>, <<"3">>, <<"5">>, Epub, En)

\* another book with the author and, but for the " !", the title of LineAnna
LineTwin ==
    Line12(<<"T","o","l",","," ","L">>, <<"s","f">>, TAnna \o <<" ", "!">>, <<"4">>,
           <<"9">>, Fb2, Ru)

\* a line whose format field holds a path separator, whose author and genre
\* hold colons and whose size is no integer
LineSlash ==
    Line12(<<"P","o","e",":">>, <<"s",":","f">>, <<" ","O","d","e">>, <<"5">>, <<"5","k">>,
           Fb2 \o <<"/","x">>, Ru)

LineShort == <<<<"T","o","l">>, <<"s","f">>, TAnna>>

LineNoTitle == Line12(<<"P","o","e">>, E, <<" ">>, <<"4">>, <<"5">>, Fb2, En)

LineBadId == Line12(<<"P","o","e">>, E, TWar, <<"x","1">>, <<"5">>, Fb2, En)

LineBlank == <<<<" ">>>>

\* A bundle is a zip archive (zip = TRUE) of entry files, or a file that is
\* no zip archive.  An entry file has a stem and its lines.
Bundles ==
    << [zip |-> TRUE,
        files |-> << [stem |-> <<"a">>, lines |-> <<LineAnna, LineShort, LineKaren>>],
                     [stem |-> <<"b">>, lines |-> <<LineThree, LineTwin>>] >>],
       [zip |-> TRUE,
        files |-> << [stem |-> <<"a">>, lines |-> <<LineAnna>>],
                     [stem |-> <<"b">>, lines |-> <<LineWar>>] >>],
       [zip |-> TRUE,
        files |-> << [stem |-> <<"a">>, lines |-> <<LineAnna, LineWar, LineThree>>] >>],
       [zip |-> TRUE,
        files |-> << [stem |-> <<"a">>,
                      lines |-> <<LineShort, LineBlank, LineNoTitle, LineBadId>>] >>],
       [zip |-> FALSE, files |-> << >>],
       [zip |-> TRUE,
        files |-> << [stem |-> <<"a">>, lines |-> <<LineSlash>>] >>] >>

Missing == 0

\* the bundle whose catalog holds the line with the path separator; it is an
\* input of PathsSpec only
SlashBundle == Len(Bundles)

BundleIds == (1..Len(Bundles)) \ {SlashBundle}

\* hashlib.md5 of the bundle file: distinct contents have distinct digests
Md5(b) == <<"md5", b>>

\* the empty string that _calculate_index_checksum returns for a missing file
EmptyChecksum == <<"empty">>

\* no index_file_checksum row in the settings table
NoChecksum == <<"none">>

\* _calculate_index_checksum
CalculateIndexChecksum(b) == IF b = Missing THEN EmptyChecksum ELSE Md5(b)

ArchiveName(stem) == stem \o <<".","z","i","p">>

\* ------------------------------------------------------------------ state

VARIABLES
    bundle,      \* the catalog bundle at config.index_file: Missing or a bundle id
    books,       \* committed BookRecord table: id -> row (id is the primary key)
    search,      \* committed SearchProjection table: set of rows, each with its rowid
    fts,         \* FTS shadow: the rows indexed in book_search_fts
    ftsExists,   \* the virtual table book_search_fts exists
    trigExists,  \* the triggers book_search_ai / _ad / _au exist
    checksum,    \* settings row index_file_checksum: NoChecksum or a digest
    tmpExists,   \* config.tmp_path exists
    pc,          \* position of the create_index run in progress, or "idle"
    extracted,   \* the bundle whose entry files were unpacked into tmp_path
    todo,        \* entry files the glob has not yielded yet
    curFile,     \* entry file being processed
    lineNo,      \* next line of curFile
    processed,   \* books_processed of _process_index_file
    sess,        \* the session of _process_index_file: its pending unit of work
    faults,      \* storage faults injected so far
    run,         \* what the current or last create_index run did
    prev,        \* the store as the previous run left it
    event,       \* the last operation performed
    result,      \* the last SearchResult, with how its conditions were built
    outFiles,    \* the files in config.extract_path: name -> what the file holds
    extraction,  \* the ExtractionResult the caller holds, or the exception
    calls,       \* the extract_book calls that run concurrently: caller -> position
    cli          \* the last `index --force` command: its position, the BookRecords
                 \* of the store it moved away, and whether the backup still exists

vars == <<bundle, books, search, fts, ftsExists, trigExists, checksum, tmpExists,
          pc, extracted, todo, curFile, lineNo, processed, sess, faults, run,
          prev, event, result, outFiles, extraction, calls, cli>>

storeVars == <<books, search, fts, ftsExists, trigExists, checksum>>

loopVars == <<extracted, todo, curFile, lineNo, processed, sess>>

NoBooks == [i \in {} |-> 0]

\* a fresh Session (database.py:132-134)
NewSession == [state |-> "active", newBooks |-> << >>, dirty |-> NoBooks,
               newSearch |-> << >>]

\* a Session whose flush failed: every later use raises PendingRollbackError
DeadSession == [state |-> "deactive", newBooks |-> << >>, dirty |-> NoBooks,
                newSearch |-> << >>]

\* run.bundle is the bundle that was unpacked; run.stable says that the bundle
\* file has not been replaced since the run started
NoRun == [outcome |-> "none", error |-> "none", bundle |-> Missing,
          madeTmp |-> FALSE, fault |-> "none", stable |-> FALSE]

\* prev.held: the run in progress repeats the last run, which had returned
\* normally, on the same bundle; books and search are what that run had left
NoPrev == [held |-> FALSE]

NoEvent == [op |-> "none", rebuild |-> FALSE]

NoResult == [held |-> FALSE]

NoFiles == [n \in {} |-> 0]

NoExtraction == [held |-> FALSE]

\* no `index --force` command has run
NoCommand ==
    [state |-> "none", before |-> NoBooks, backup |-> FALSE, missing |-> FALSE,
     exit |-> 0]

\* the threads that call extract_book at the same time
Callers == {1, 2}

NoCall ==
    [pc |-> "idle", book_id |-> 0, at |-> << >>, success |-> FALSE, file_size |-> 0,
     error_message |-> "None"]

\* DatabaseConfig has created tmp_path (models.py:154-160), DatabaseManager has
\* created the empty tables and tried to create the FTS table and its triggers
\* (database.py:122-126); fts5 names whether the SQLite build has FTS5.
Init ==
    /\ bundle \in {Missing} \cup BundleIds
    /\ books = NoBooks
    /\ search = {}
    /\ fts = {}
    /\ \E fts5 \in BOOLEAN : ftsExists = fts5 /\ trigExists = fts5
    /\ checksum = NoChecksum
    /\ tmpExists = TRUE
    /\ pc = "idle"
    /\ extracted = Missing
    /\ todo = {}
    /\ curFile = 0
    /\ lineNo = 0
    /\ processed = 0
    /\ sess = NewSession
    /\ faults = 0
    /\ run = NoRun
    /\ prev = NoPrev
    /\ event = NoEvent
    /\ result = NoResult
    /\ outFiles = NoFiles
    /\ extraction = NoExtraction
    /\ calls = [p \in Callers |-> NoCall]
    /\ cli = NoCommand

\* ---------------------------------------------------------- unit of work

Ids(recs) == {recs[i].id : i \in 1..Len(recs)}

\* session.merge(book_record): the identity map holds the rows this session
\* loaded and changed; otherwise session.get looks the key up in the database
\* (pending objects are in neither, and nothing is flushed before the lookup).
MergeBook(s, rec) ==
    IF rec.id \in DOMAIN s.dirty \/ rec.id \in DOMAIN books
    THEN [s EXCEPT !.dirty = [i \in DOMAIN s.dirty \cup {rec.id} |->
                                 IF i = rec.id THEN rec ELSE s.dirty[i]]]
    ELSE [s EXCEPT !.newBooks = Append(s.newBooks, rec)]

\* session.merge(search_record): rowid, the primary key, is unset, so the
\* record is always added as a new row
MergeSearch(s, srec) == [s EXCEPT !.newSearch = Append(s.newSearch, srec)]

\* the flush of a commit violates the primary key of books
FlushConflict(s) ==
    \/ Cardinality(Ids(s.newBooks)) # Len(s.newBooks)
    \/ Ids(s.newBooks) \cap DOMAIN books # {}

MaxRowid(rows) ==
    IF rows = {} THEN 0 ELSE CHOOSE m \in {r.rowid : r \in rows} :
                                 \A r \in rows : r.rowid <= m

\* the rows a flush inserts into book_search: rowid is max(rowid) + 1
InsertedSearch(s) ==
    {[rowid |-> MaxRowid(search) + i, id |-> s.newSearch[i].id,
      author |-> s.newSearch[i].author, title |-> s.newSearch[i].title,
      language |-> s.newSearch[i].language] : i \in 1..Len(s.newSearch)}

BooksAfterFlush(s) ==
    [i \in DOMAIN books \cup DOMAIN s.dirty \cup Ids(s.newBooks) |->
        IF i \in DOMAIN s.dirty THEN s.dirty[i]
        ELSE IF i \in DOMAIN books THEN books[i]
        ELSE s.newBooks[CHOOSE k \in 1..Len(s.newBooks) : s.newBooks[k].id = i]]

\* book_search without the insert trigger
FtsAfterInsert_NoTrigger(rows) == fts

\* the insert trigger clearing the index before it adds the new rows
FtsAfterInsert_Replaces(rows) == IF trigExists /\ ftsExists THEN rows ELSE fts

\* trigger book_search_ai (database.py:174-179)
FtsAfterInsert(rows) == IF trigExists /\ ftsExists THEN fts \cup rows ELSE fts

\* trigger book_search_ad (database.py:181-186)
FtsAfterDelete(rows) == IF trigExists /\ ftsExists THEN fts \ rows ELSE fts

\* session.commit() of the unit of work s succeeds
CommitWrites(s) ==
    /\ books' = BooksAfterFlush(s)
    /\ search' = search \cup InsertedSearch(s)
    /\ fts' = FtsAfterInsert(InsertedSearch(s))
    /\ UNCHANGED <<ftsExists, trigExists, checksum>>

\* ------------------------------------------------------------ create_index

\* the finally clause of create_index (book_index.py:160-163)
RemoveTmp == tmpExists' = FALSE

\* create_index ends; the exception, if any, reaches its caller
Finish(outcome, error, fault) ==
    /\ pc' = "idle"
    /\ run' = [run EXCEPT !.outcome = outcome, !.error = error,
                          !.fault = IF fault = "none" THEN @ ELSE fault]
    /\ extracted' = Missing
    /\ todo' = {}
    /\ curFile' = 0
    /\ lineNo' = 0
    /\ processed' = 0
    /\ sess' = NewSession

\* _should_rebuild_index without the comparison of the checksums
ShouldRebuildIndex_NoGating == bundle # Missing

\* _should_rebuild_index (book_index.py:78-94)
ShouldRebuildIndex ==
    IF bundle = Missing THEN FALSE
    ELSE IF Cardinality(DOMAIN books) = 0 THEN TRUE
    ELSE CalculateIndexChecksum(bundle) # checksum

\* create_index without the check that the bundle exists
CreateIndexEntry_NoExistsCheck ==
    /\ prev' = NoPrev
    /\ pc' = "truncate"
    /\ run' = [NoRun EXCEPT !.outcome = "running", !.stable = TRUE]

\* create_index up to its first statement on the store (book_index.py:126-132):
\* a missing bundle raises IndexNotFoundError, otherwise the run starts
CreateIndexEntry ==
    /\ prev' = IF run.outcome = "ok" /\ run.stable /\ run.fault = "none"
                  /\ bundle # Missing
               THEN [held |-> TRUE, books |-> books, search |-> search]
               ELSE NoPrev
    /\ IF bundle = Missing
       THEN /\ pc' = "idle"
            /\ run' = [NoRun EXCEPT !.outcome = "raised",
                                    !.error = "IndexNotFoundError"]
       ELSE /\ pc' = "truncate"
            /\ run' = [NoRun EXCEPT !.outcome = "running", !.stable = TRUE]

\* BookIndex.__init__ (book_index.py:51-76)
Construct ==
    /\ pc = "idle"
    /\ event' = [op |-> "construct", rebuild |-> ShouldRebuildIndex]
    /\ IF ShouldRebuildIndex
       THEN CreateIndexEntry
       ELSE UNCHANGED <<pc, run, prev>>
    /\ result' = NoResult
    /\ extraction' = NoExtraction
    /\ UNCHANGED <<outFiles, calls, cli>>
    /\ UNCHANGED <<bundle, storeVars, tmpExists, loopVars, faults>>

\* an explicit call of create_index
CreateIndex ==
    /\ pc = "idle"
    /\ event' = [op |-> "create_index", rebuild |-> TRUE]
    /\ CreateIndexEntry
    /\ result' = NoResult
    /\ extraction' = NoExtraction
    /\ UNCHANGED <<outFiles, calls, cli>>
    /\ UNCHANGED <<bundle, storeVars, tmpExists, loopVars, faults>>

\* the command `index --force` (cli/main.py:157-198) up to the staleness
\* check of the BookIndex it constructs: the store directory is moved into a
\* temporary backup directory (164-170), DatabaseManager creates an empty
\* database in its place, with the FTS table and triggers as the SQLite
\* build allows, and _should_rebuild_index runs on that empty store.
\* Without a bundle it returns False: no rebuild is started, the backup is
\* removed (174-176) and the command ends with "Index is ready".
IndexForce ==
    /\ pc = "idle"
    /\ cli.state # "running"
    /\ books' = NoBooks
    /\ search' = {}
    /\ fts' = {}
    /\ checksum' = NoChecksum
    /\ UNCHANGED <<ftsExists, trigExists>>
    /\ event' = [op |-> "index_force", rebuild |-> bundle # Missing]
    /\ IF bundle = Missing
       THEN /\ cli' = [state |-> "ended", before |-> books, backup |-> FALSE,
                       missing |-> TRUE, exit |-> 0]
            /\ UNCHANGED <<pc, run, prev>>
       ELSE /\ cli' = [state |-> "running", before |-> books, backup |-> TRUE,
                       missing |-> FALSE, exit |-> 0]
            /\ CreateIndexEntry
    /\ result' = NoResult
    /\ extraction' = NoExtraction
    /\ UNCHANGED <<bundle, tmpExists, loopVars, faults, outFiles, calls>>

\* the rest of the command, after the constructor's create_index has
\* returned or raised: on a normal return the backup is removed (174-176);
\* an exception is reported and the command exits with status 1 (189-194),
\* the backup staying in the temporary directory
IndexForceEnd ==
    /\ pc = "idle"
    /\ cli.state = "running"
    /\ cli' = IF run.outcome = "ok"
              THEN [cli EXCEPT !.state = "ended", !.backup = FALSE]
              ELSE [cli EXCEPT !.state = "ended", !.exit = 1]
    /\ event' = [op |-> "index_force_end", rebuild |-> FALSE]
    /\ result' = NoResult
    /\ extraction' = NoExtraction
    /\ UNCHANGED <<bundle, storeVars, tmpExists, pc, loopVars, faults, run, prev,
                   outFiles, calls>>

Step ==
    /\ event' = [op |-> "step", rebuild |-> FALSE]
    /\ result' = NoResult
    /\ extraction' = NoExtraction
    /\ UNCHANGED <<outFiles, calls, cli>>

\* DELETE FROM book_search runs trigger book_search_ad for every row; the
\* 'delete' of an entry that the index does not hold fails ("database disk
\* image is malformed")
TruncateConflict == ftsExists /\ trigExists /\ ~(search \subseteq fts)

\* create_index storing the checksum together with the truncate
Truncate_StoresChecksum ==
    /\ pc = "truncate"
    /\ ~TruncateConflict
    /\ Step
    /\ books' = NoBooks
    /\ search' = {}
    /\ fts' = FtsAfterDelete(search)
    /\ checksum' = CalculateIndexChecksum(bundle)
    /\ pc' = "extract"
    /\ UNCHANGED <<bundle, ftsExists, trigExists, tmpExists, loopVars, faults, run, prev>>

\* the truncate deleting the BookRecords only
Truncate_BooksOnly ==
    /\ pc = "truncate"
    /\ ~TruncateConflict
    /\ Step
    /\ books' = NoBooks
    /\ pc' = "extract"
    /\ UNCHANGED <<bundle, search, fts, ftsExists, trigExists, checksum, tmpExists,
                   loopVars, faults, run, prev>>

\* "Clear existing data" (book_index.py:134-138): both deletes and one commit
Truncate ==
    /\ pc = "truncate"
    /\ ~TruncateConflict
    /\ Step
    /\ books' = NoBooks
    /\ search' = {}
    /\ fts' = FtsAfterDelete(search)
    /\ pc' = "extract"
    /\ UNCHANGED <<bundle, ftsExists, trigExists, checksum, tmpExists, loopVars,
                   faults, run, prev>>

\* the commit of the truncate raises; the session is closed, nothing is deleted
TruncateFault ==
    /\ pc = "truncate"
    /\ faults < MaxFaults
    /\ faults' = faults + 1
    /\ Step
    /\ Finish("raised", "StorageError", "truncate_commit")
    /\ UNCHANGED <<bundle, storeVars, tmpExists, prev>>

\* the delete on book_search raises out of "Clear existing data": the session
\* is closed without a commit, nothing is deleted
TruncateRaises ==
    /\ pc = "truncate"
    /\ TruncateConflict
    /\ Step
    /\ Finish("raised", "DatabaseError", "none")
    /\ UNCHANGED <<bundle, storeVars, tmpExists, faults, prev>>

\* _extract_index_archive (book_index.py:165-170), called before the try
ExtractIndexArchive ==
    /\ pc = "extract"
    /\ Step
    /\ tmpExists' = TRUE
    /\ IF bundle # Missing /\ Bundles[bundle].zip
       THEN /\ extracted' = bundle
            /\ todo' = 1..Len(Bundles[bundle].files)
            /\ pc' = "files"
            /\ run' = [run EXCEPT !.madeTmp = TRUE, !.bundle = bundle]
       ELSE /\ pc' = "idle"
            /\ run' = [run EXCEPT !.madeTmp = TRUE, !.outcome = "raised",
                          !.error = IF bundle = Missing THEN "FileNotFoundError"
                                    ELSE "BadZipFile"]
            /\ UNCHANGED <<extracted, todo>>
    /\ UNCHANGED <<bundle, storeVars, curFile, lineNo, processed, sess, faults, prev>>

\* the loop over _get_index_files (book_index.py:145-149): the glob yields the
\* entry files in directory order, which is any order
NextIndexFile ==
    /\ pc = "files"
    /\ todo # {}
    /\ Step
    /\ \E f \in todo :
          /\ curFile' = f
          /\ todo' = todo \ {f}
    /\ lineNo' = 1
    /\ processed' = 0
    /\ sess' = NewSession
    /\ pc' = "line"
    /\ UNCHANGED <<bundle, storeVars, tmpExists, extracted, faults, run, prev>>

AllFilesDone ==
    /\ pc = "files"
    /\ todo = {}
    /\ Step
    /\ pc' = "checksum"
    /\ UNCHANGED <<bundle, storeVars, tmpExists, loopVars, faults, run, prev>>

CurLines == Bundles[extracted].files[curFile].lines

CurData ==
    ParseBookMetadata(CurLines[lineNo], ArchiveName(Bundles[extracted].files[curFile].stem))

\* the line reaches session.merge: it is not blank, it parses, int(bookid) works
Storable ==
    /\ ~IsBlankLine(CurLines[lineNo])
    /\ CurData.ok
    /\ IsIntText(CurData.bookid)

AtLine == pc = "line" /\ lineNo <= Len(CurLines)

\* a rejected line ends the processing of its entry file
LineSkipped_Aborts ==
    /\ AtLine
    /\ ~Storable
    /\ Step
    /\ pc' = "files"
    /\ UNCHANGED <<bundle, storeVars, tmpExists, extracted, todo, curFile, lineNo,
                   processed, sess, faults, run, prev>>

\* a blank line, a rejected line, or a line whose bookid is no integer (the
\* ValueError of int() is caught at book_index.py:195-197)
LineSkipped ==
    /\ AtLine
    /\ ~Storable
    /\ Step
    /\ lineNo' = lineNo + 1
    /\ UNCHANGED <<bundle, storeVars, tmpExists, pc, extracted, todo, curFile,
                   processed, sess, faults, run, prev>>

\* the session is unusable after a failed flush: merge raises
\* PendingRollbackError, which is caught at book_index.py:195-197
LineOnDeadSession ==
    /\ AtLine
    /\ Storable
    /\ sess.state = "deactive"
    /\ Step
    /\ lineNo' = lineNo + 1
    /\ UNCHANGED <<bundle, storeVars, tmpExists, pc, extracted, todo, curFile,
                   processed, sess, faults, run, prev>>

\* session.get inside merge raises a storage error; _store_book_data re-raises
\* it and the loop catches it (book_index.py:195-197)
LineMergeFault ==
    /\ AtLine
    /\ Storable
    /\ sess.state = "active"
    /\ IntOf(CurData.bookid) \notin DOMAIN sess.dirty
    /\ faults < MaxFaults
    /\ faults' = faults + 1
    /\ Step
    /\ lineNo' = lineNo + 1
    /\ run' = [run EXCEPT !.fault = "merge"]
    /\ UNCHANGED <<bundle, storeVars, tmpExists, pc, extracted, todo, curFile,
                   processed, sess, prev>>

Merged == MergeSearch(MergeBook(sess, BookRecordOf(CurData)), SearchRecordOf(CurData))

LineStorable == AtLine /\ Storable /\ sess.state = "active"

\* _store_book_data succeeds and no batch commit is due
LineStored ==
    /\ LineStorable
    /\ (processed + 1) % BatchSize # 0
    /\ Step
    /\ sess' = Merged
    /\ processed' = processed + 1
    /\ lineNo' = lineNo + 1
    /\ UNCHANGED <<bundle, storeVars, tmpExists, pc, extracted, todo, curFile,
                   faults, run, prev>>

\* _store_book_data succeeds and the batch commit (book_index.py:192-193) too
LineStoredBatchCommit ==
    /\ LineStorable
    /\ (processed + 1) % BatchSize = 0
    /\ ~FlushConflict(Merged)
    /\ Step
    /\ CommitWrites(Merged)
    /\ sess' = NewSession
    /\ processed' = processed + 1
    /\ lineNo' = lineNo + 1
    /\ UNCHANGED <<bundle, tmpExists, pc, extracted, todo, curFile, faults, run, prev>>

\* the batch commit raises (the flush or the COMMIT fails); the exception is
\* caught at book_index.py:195-197 and the session is left rolled back
BatchCommitFails(injected) ==
    /\ LineStorable
    /\ (processed + 1) % BatchSize = 0
    /\ Step
    /\ sess' = DeadSession
    /\ processed' = processed + 1
    /\ lineNo' = lineNo + 1
    /\ run' = [run EXCEPT !.fault = IF injected THEN "batch_commit" ELSE @]
    /\ UNCHANGED <<bundle, storeVars, tmpExists, pc, extracted, todo, curFile, prev>>

LineStoredBatchConflict ==
    /\ LineStorable
    /\ FlushConflict(Merged)
    /\ BatchCommitFails(FALSE)
    /\ UNCHANGED faults

LineStoredBatchFault ==
    /\ faults < MaxFaults
    /\ faults' = faults + 1
    /\ BatchCommitFails(TRUE)

AtEof == pc = "line" /\ lineNo > Len(CurLines)

FinalCommitOk == sess.state = "active" /\ ~FlushConflict(sess)

\* the final commit of _process_index_file (book_index.py:199)
FinalCommit ==
    /\ AtEof
    /\ FinalCommitOk
    /\ Step
    /\ CommitWrites(sess)
    /\ sess' = NewSession
    /\ pc' = "files"
    /\ UNCHANGED <<bundle, tmpExists, extracted, todo, curFile, lineNo, processed,
                   faults, run, prev>>

\* the final commit raises: the exception leaves _process_index_file and
\* create_index, whose finally clause removes tmp_path
FinalCommitRaises ==
    /\ AtEof
    /\ ~FinalCommitOk
    /\ Step
    /\ RemoveTmp
    /\ Finish("raised", IF sess.state = "deactive" THEN "PendingRollbackError"
                        ELSE "IntegrityError", "none")
    /\ UNCHANGED <<bundle, storeVars, faults, prev>>

FinalCommitFault ==
    /\ AtEof
    /\ FinalCommitOk
    /\ faults < MaxFaults
    /\ faults' = faults + 1
    /\ Step
    /\ RemoveTmp
    /\ Finish("raised", "StorageError", "final_commit")
    /\ UNCHANGED <<bundle, storeVars, prev>>

\* "Store checksum" (book_index.py:151-155), then the finally clause
StoreChecksum ==
    /\ pc = "checksum"
    /\ Step
    /\ checksum' = CalculateIndexChecksum(bundle)
    /\ RemoveTmp
    /\ Finish("ok", "none", "none")
    /\ UNCHANGED <<bundle, books, search, fts, ftsExists, trigExists, faults, prev>>

StoreChecksumFault ==
    /\ pc = "checksum"
    /\ faults < MaxFaults
    /\ faults' = faults + 1
    /\ Step
    /\ RemoveTmp
    /\ Finish("raised", "StorageError", "checksum_commit")
    /\ UNCHANGED <<bundle, storeVars, prev>>

\* ----------------------------------------------------- rebuild_search_index

Called(op) ==
    /\ event' = [op |-> op, rebuild |-> FALSE]
    /\ result' = NoResult
    /\ extraction' = NoExtraction
    /\ UNCHANGED <<outFiles, calls, cli>>

\* rebuild_fts without the statement that populates the new table
RebuildFts_NoPopulate ==
    /\ pc = "idle"
    /\ ftsExists
    /\ Called(IF fts = search THEN "rebuild_fts_ok" ELSE "rebuild_fts_repair")
    /\ fts' = {}
    /\ UNCHANGED <<bundle, books, search, ftsExists, trigExists, checksum, tmpExists,
                   pc, loopVars, faults, run, prev>>

\* rebuild_search_index -> rebuild_fts (database.py:213-246) returns normally:
\* the table is dropped, created and populated from book_search.  The triggers
\* belong to book_search and are left as they are.
RebuildFts ==
    /\ pc = "idle"
    /\ ftsExists
    /\ Called(IF fts = search THEN "rebuild_fts_ok" ELSE "rebuild_fts_repair")
    /\ fts' = search
    /\ UNCHANGED <<bundle, books, search, ftsExists, trigExists, checksum, tmpExists,
                   pc, loopVars, faults, run, prev>>

\* the SQLite build has no FTS5 (the table was never created): CREATE VIRTUAL
\* TABLE raises, rebuild_fts rolls back and re-raises
RebuildFtsNoModule ==
    /\ pc = "idle"
    /\ ~ftsExists
    /\ Called("rebuild_fts_raised")
    /\ UNCHANGED <<bundle, storeVars, tmpExists, pc, loopVars, faults, run, prev>>

\* the INSERT ... SELECT that populates the table, or the commit, raises;
\* rebuild_fts rolls back and re-raises.  The rollback restores the old table
\* when the driver had opened the transaction before the DDL statements, and
\* leaves the new, empty table when DROP and CREATE ran in autocommit mode
\* (the sqlite3 module opens a transaction only before a DML statement).
RebuildFtsFault ==
    /\ pc = "idle"
    /\ ftsExists
    /\ faults < MaxFaults
    /\ faults' = faults + 1
    /\ Called("rebuild_fts_raised")
    /\ fts' \in {fts, {}}
    /\ UNCHANGED <<bundle, books, search, ftsExists, trigExists, checksum, tmpExists,
                   pc, loopVars, run, prev>>

\* rebuild_fts returns normally on a database without the FTS table (the
\* _init_fts of this or of an earlier process had failed): DROP TABLE IF
\* EXISTS does nothing, the table is created and populated.  rebuild_fts
\* creates no trigger.
RebuildFtsCreates ==
    /\ pc = "idle"
    /\ ~ftsExists
    /\ Called("rebuild_fts_ok")
    /\ ftsExists' = TRUE
    /\ fts' = search
    /\ UNCHANGED <<bundle, books, search, trigExists, checksum, tmpExists,
                   pc, loopVars, faults, run, prev>>

\* DatabaseManager.__init__ -> _init_fts (database.py:136-211) on the existing
\* database: nothing is done when sqlite_master lists book_search_fts;
\* otherwise the table is created, the triggers are dropped and created, and
\* the table is populated from book_search
InitFts ==
    /\ pc = "idle"
    /\ Called("init_fts")
    /\ IF ftsExists
       THEN UNCHANGED <<ftsExists, trigExists, fts>>
       ELSE /\ ftsExists' = TRUE
            /\ trigExists' = TRUE
            /\ fts' = search
    /\ UNCHANGED <<bundle, books, search, checksum, tmpExists, pc, loopVars, faults,
                   run, prev>>

\* _init_fts raises inside its try and goes on without FTS (database.py:
\* 208-211): at CREATE VIRTUAL TABLE (nothing is created), at a CREATE
\* TRIGGER (the driver runs DDL outside a transaction, so the table stays) or
\* at the statement that populates the table
InitFtsFault ==
    /\ pc = "idle"
    /\ ~ftsExists
    /\ faults < MaxFaults
    /\ faults' = faults + 1
    /\ Called("init_fts")
    /\ \/ UNCHANGED <<ftsExists, trigExists, fts>>
       \/ ftsExists' = TRUE /\ fts' = {} /\ UNCHANGED trigExists
       \/ ftsExists' = TRUE /\ fts' = {} /\ trigExists' = TRUE
    /\ UNCHANGED <<bundle, books, search, checksum, tmpExists, pc, loopVars,
                   run, prev>>

\* ------------------------------------------------------------ environment

\* an index entry that belongs to no row of book_search
GhostEntry ==
    [rowid |-> MaxRowid(search) + 1, id |-> 9, author |-> <<"X">>,
     title |-> TKaren, language |-> En]

\* The FTS shadow is changed behind the program's back (written directly, or
\* damaged): an entry is lost, an entry without a row is added, or an entry
\* keeps the text its row had before.
DesyncFts ==
    /\ pc = "idle"
    /\ ftsExists
    /\ search # {}
    /\ faults < MaxFaults
    /\ faults' = faults + 1
    /\ Called("desync")
    /\ \/ \E e \in fts : fts' = fts \ {e}
       \/ fts' = fts \cup {GhostEntry}
       \/ \E e \in fts : fts' = (fts \ {e}) \cup {[e EXCEPT !.title = TWar]}
    /\ fts' # fts
    /\ UNCHANGED <<bundle, books, search, ftsExists, trigExists, checksum, tmpExists,
                   pc, loopVars, run, prev>>

\* The external data-sync process replaces or removes the bundle file.  The
\* program reads the file when a run is started, when the archive is unpacked
\* and when the checksum is computed; a replacement at any other moment has
\* the effect of one made just before the next of these reads.
ReplaceBundle ==
    /\ pc \in {"idle", "extract", "checksum"}
    /\ \E b \in ({Missing} \cup BundleIds) \ {bundle} : bundle' = b
    /\ event' = [op |-> "replace", rebuild |-> FALSE]
    /\ run' = [run EXCEPT !.stable = FALSE]
    /\ result' = NoResult
    /\ extraction' = NoExtraction
    /\ UNCHANGED <<outFiles, calls, cli>>
    /\ UNCHANGED <<storeVars, tmpExists, pc, loopVars, faults, prev>>

\* ------------------------------------------------------------ query engine

\* the title and author terms tried, as SearchQuery has cleaned them (E for an
\* absent term)
Terms ==
    { [title |-> TKaren, author |-> E],
      [title |-> <<"A","n","n","a">>, author |-> E],
      [title |-> <<"n","n">>, author |-> E],
      [title |-> <<"a","_","n">>, author |-> E],
      [title |-> <<"A","n","\"">>, author |-> E],
      [title |-> E, author |-> TKaren],
      [title |-> E, author |-> <<"o","l">>],
      [title |-> <<"a","r">>, author |-> <<"T","o","l">>] }

SearchTerms == ({t.title : t \in Terms} \cup {t.author : t \in Terms}) \ {E}

\* every line of every entry file of the bundles, parsed
ParsedLines ==
    UNION {UNION {{ParseBookMetadata(f.lines[k], ArchiveName(f.stem))
                      : k \in 1..Len(f.lines)}
                     : f \in {Bundles[b].files[j] : j \in 1..Len(Bundles[b].files)}}
              : b \in BundleIds}

\* the titles and authors that books, book_search and the FTS index can hold
KnownTexts ==
    UNION {{d.title, d.author, Upper(d.title), Upper(d.author)}
              : d \in {x \in ParsedLines : x.ok}}
    \cup {<<"X">>, TKaren, TWar}

\* the tokens of the FTS5 unicode61 tokenizer: the maximal runs of
\* alphanumeric characters, case-folded
RECURSIVE TokensFrom(_, _, _)
TokensFrom(s, cur, acc) ==
    IF s = E THEN (IF cur = E THEN acc ELSE Append(acc, cur))
    ELSE IF IsAlnum(Head(s)) THEN TokensFrom(Tail(s), Append(cur, LowerC(Head(s))), acc)
    ELSE TokensFrom(Tail(s), E, IF cur = E THEN acc ELSE Append(acc, cur))

Tokens(s) == TokensFrom(s, E, << >>)

\* the document has the tokens of the phrase at consecutive positions
HasPhrase(doc, phrase) ==
    /\ phrase # << >>
    /\ \E i \in 1..(Len(doc) - Len(phrase) + 1) :
          SubSeq(doc, i, i + Len(phrase) - 1) = phrase

CountOf(s, c) == Cardinality({i \in 1..Len(s) : s[i] = c})

\* the index entries whose field has the phrase
\* the text has the phrase of the term: MATCH 'field:"term"' on one entry
Matches(text, term) == HasPhrase(Tokens(text), Tokens(term))

\* Matches on the terms and texts above, computed once
MatchTable == {<<t, v, Matches(v, t)>> : t \in SearchTerms, v \in KnownTexts}

FtsHits(field, term) ==
    {e \in fts :
        LET text == IF field = "title" THEN e.title ELSE e.author
        IN  IF term \in SearchTerms /\ text \in KnownTexts
            THEN <<term, text, TRUE>> \in MatchTable
            ELSE Matches(text, term)}

\* 'field:"term"' does not execute: no FTS table ("no such table"), a quote
\* in the term leaves the phrase string unterminated, or a matching entry has
\* no row in the content table ("database disk image is malformed")
FtsRaises(field, term) ==
    \/ ~ftsExists
    \/ CountOf(term, "\"") % 2 = 1
    \/ \E e \in FtsHits(field, term) : \A x \in search : x.rowid # e.rowid

\* SELECT id FROM book_search_fts WHERE book_search_fts MATCH 'field:"term"':
\* the index entries whose field has the phrase; id is read from the content
\* table book_search by rowid
FtsIds(field, term) ==
    {r.id : r \in {x \in search : \E e \in FtsHits(field, term) : e.rowid = x.rowid}}

\* SQL LIKE: % matches any run of characters, _ any one character
RECURSIVE LikeMatch(_, _)
LikeMatch(p, s) ==
    IF p = E THEN s = E
    ELSE IF Head(p) = "%"
         THEN LikeMatch(Tail(p), s) \/ (s # E /\ LikeMatch(p, Tail(s)))
         ELSE /\ s # E
              /\ (Head(p) = "_" \/ Head(p) = Head(s))
              /\ LikeMatch(Tail(p), Tail(s))

\* lower(value) LIKE lower('%term%')
LowerLike(value, term) == LikeMatch(Lower(<<"%">> \o term \o <<"%">>), Lower(value))

\* LowerLike on the terms and texts above, computed once
LikeTable == {<<t, v, LowerLike(v, t)>> : t \in SearchTerms, v \in KnownTexts}

\* column.ilike(f"%{term}%"): lower(column) LIKE lower('%term%')
ILike(value, term) ==
    IF term \in SearchTerms /\ value \in KnownTexts
    THEN <<term, value, TRUE>> \in LikeTable
    ELSE LowerLike(value, term)

FieldOf(b, field) == IF field = "title" THEN b.title ELSE b.author

LikeCondition(field, term, path) ==
    [path |-> path, ids |-> {i \in DOMAIN books : ILike(FieldOf(books[i], field), term)}]

\* the conditions without the fallback on an empty FTS result
BuildCondition_NoFallback(field, term) ==
    IF Len(term) > 2
    THEN IF FtsRaises(field, term) THEN LikeCondition(field, term, "fts_raised")
         ELSE LET book_ids == FtsIds(field, term)
              IN  IF book_ids # {}
                  THEN [path |-> "fts_hit", ids |-> DOMAIN books \cap book_ids]
                  ELSE [path |-> "fts_empty", ids |-> {}]
    ELSE LikeCondition(field, term, "like_short")

\* the conditions with the length test off by one
BuildCondition_Threshold(field, term) ==
    IF Len(term) > 1
    THEN IF FtsRaises(field, term) THEN LikeCondition(field, term, "fts_raised")
         ELSE LET book_ids == FtsIds(field, term)
              IN  IF book_ids # {}
                  THEN [path |-> "fts_hit", ids |-> DOMAIN books \cap book_ids]
                  ELSE LikeCondition(field, term, "fts_empty")
    ELSE LikeCondition(field, term, "like_short")

\* the conditions without the handler around the FTS query: the exception
\* leaves _build_title_condition, and search, which has no handler either
BuildCondition_Unhandled(field, term) ==
    IF Len(term) > 2
    THEN IF FtsRaises(field, term) THEN [path |-> "raised", ids |-> {}]
         ELSE LET book_ids == FtsIds(field, term)
              IN  IF book_ids # {}
                  THEN [path |-> "fts_hit", ids |-> DOMAIN books \cap book_ids]
                  ELSE LikeCondition(field, term, "fts_empty")
    ELSE LikeCondition(field, term, "like_short")

\* the body shared by _build_title_condition and _build_author_condition
BuildCondition(field, term) ==
    IF Len(term) > 2
    THEN IF FtsRaises(field, term) THEN LikeCondition(field, term, "fts_raised")
         ELSE LET book_ids == FtsIds(field, term)
              IN  IF book_ids # {}
                  THEN [path |-> "fts_hit", ids |-> DOMAIN books \cap book_ids]
                  ELSE LikeCondition(field, term, "fts_empty")
    ELSE LikeCondition(field, term, "like_short")

\* _build_title_condition (book_index.py:338-359)
BuildTitleCondition(term) == BuildCondition("title", term)

\* _build_author_condition (book_index.py:361-382)
BuildAuthorCondition(term) == BuildCondition("author", term)

NoCondition == [path |-> "none", ids |-> DOMAIN books]

\* BookRecord.language == query.language (book_index.py:292-293)
LanguageCondition(language) ==
    [path |-> "equal", ids |-> {i \in DOMAIN books : books[i].language = language}]

\* the BINARY collation of SQLite on ASCII text: digits, capitals, small letters
Alphabet == DigitCs \o UpperCs \o LowerCs

RECURSIVE TextLess(_, _)
TextLess(a, b) ==
    IF b = E THEN FALSE
    ELSE IF a = E THEN TRUE
    ELSE IF Head(a) = Head(b) THEN TextLess(Tail(a), Tail(b))
    ELSE IndexIn(Alphabet, Head(a)) < IndexIn(Alphabet, Head(b))

\* i comes before j in the index the plan walks
Before(plan, i, j) ==
    IF plan = "idx_language_format" /\ books[i].format # books[j].format
    THEN TextLess(books[i].format, books[j].format)
    ELSE i < j

\* the rows of the filtered set in the order the plan yields them
RECURSIVE RowsInOrder(_, _)
RowsInOrder(ids, plan) ==
    IF ids = {} THEN << >>
    ELSE LET first == CHOOSE i \in ids : \A j \in ids \ {i} : Before(plan, i, j)
         IN  <<first>> \o RowsInOrder(ids \ {first}, plan)

\* The query has no ORDER BY, so the rows come in the order of the plan SQLite
\* chooses: the table in primary-key order, the keys of an IN list in
\* ascending order, or, for a language filter, one of the two indexes on
\* language: ix_books_language (language, id) or idx_language_format
\* (language, format, id).  SQLite takes the one that was created last.
Plans(q, tc, ac) ==
    IF q.language # E /\ tc.path # "fts_hit" /\ ac.path # "fts_hit"
    THEN {"ix_books_language", "idx_language_format"}
    ELSE {"primary_key"}

\* the page without the OFFSET
Page_NoOffset(rows, limit, offset) ==
    SubSeq(rows, 1, IF limit < Len(rows) THEN limit ELSE Len(rows))

\* OFFSET and LIMIT on the ordered rows (book_index.py:309)
Page(rows, limit, offset) ==
    SubSeq(rows, offset + 1, IF offset + limit < Len(rows) THEN offset + limit
                             ELSE Len(rows))

\* SearchQuery.limit when the caller gives none
DefaultLimit == 50

\* the queries tried
\* a query of the whole store, or of one language, page by page
Paged(language, limit, offset) ==
    [title |-> E, author |-> E, language |-> language, limit |-> limit,
     offset |-> offset]

Queries ==
    {[title |-> t.title, author |-> t.author, language |-> E,
      limit |-> DefaultLimit, offset |-> 0] : t \in Terms}

PagedQueries ==
    {Paged(E, 3, 0), Paged(E, 3, 3), Paged(E, 3, 6), Paged(E, 1, 1),
     Paged(En, DefaultLimit, 0), Paged(En, 1, 0), Paged(En, 1, 1)}

\* search (book_index.py:267-336): the conjunction of the conditions present.
\* result is the SearchResult the caller holds; every other operation drops
\* it, as it drops the ExtractionResult of the last extract_book call.
SearchAmong(queries) ==
    /\ pc = "idle"
    /\ ~result.held
    /\ \E q \in queries :
          LET tc == IF q.title # E THEN BuildTitleCondition(q.title) ELSE NoCondition
              ac == IF q.author # E THEN BuildAuthorCondition(q.author) ELSE NoCondition
              lc == IF q.language # E THEN LanguageCondition(q.language) ELSE NoCondition
              ids == tc.ids \cap ac.ids \cap lc.ids
          IN  \E plan \in Plans(q, tc, ac) :
                 result' = [held |-> TRUE, query |-> q,
                            raised |-> "raised" \in {tc.path, ac.path},
                            ids |-> ids, titlePath |-> tc.path, authorPath |-> ac.path,
                            total_count |-> Cardinality(ids),
                            books |-> Page(RowsInOrder(ids, plan), q.limit, q.offset)]
    /\ event' = [op |-> "search", rebuild |-> FALSE]
    /\ extraction' = NoExtraction
    /\ UNCHANGED <<bundle, storeVars, tmpExists, pc, loopVars, faults, run, prev,
                   outFiles, calls, cli>>

Search == SearchAmong(Queries)

SearchPaged == SearchAmong(PagedQueries)

\* ------------------------------------------------------------ extract_book

\* the characters the safe file name keeps (book_index.py:423-424)
IsSafeChar(c) == IsAlnum(c) \/ c \in {" ", "-", "_"}

\* the safe name without the strip()
SafeName_NoStrip(s) == SelectSeq(s, IsSafeChar)

\* "".join(c for c in s if c.isalnum() or c in (' ', '-', '_')).strip()
SafeName(s) == Strip(SelectSeq(s, IsSafeChar))

\* str(n) of a natural number
RECURSIVE Decimal(_)
Decimal(n) ==
    IF n < 10 THEN <<DigitCs[n + 1]>>
    ELSE Decimal(n \div 10) \o <<DigitCs[(n % 10) + 1]>>

\* f"{book_id}.{book_record.format}": the member of the shard archive, and the
\* name it is unpacked under
OriginalFilename(book_id, rec) == Decimal(book_id) \o <<".">> \o rec.format

\* f"{safe_author} - {safe_title}.{book_record.format}"
ExtractedFilename(rec) ==
    SafeName(rec.author) \o <<" ", "-", " ">> \o SafeName(rec.title) \o <<".">>
        \o rec.format

\* the byte size of the member of book book_id in its shard archive
MemberSize(book_id) == 10 + book_id

\* what a file of the output directory holds
FileOf(book_id) == [book |-> book_id, size |-> MemberSize(book_id)]

WithFile(files, name, file) ==
    [n \in DOMAIN files \cup {name} |-> IF n = name THEN file ELSE files[n]]

WithoutFile(files, name) == [n \in DOMAIN files \ {name} |-> files[n]]

\* the directory part of a path under extract_path: the text before its last
\* "/", or the empty text
RECURSIVE DirOf(_)
DirOf(name) ==
    IF name = E THEN E
    ELSE IF name[Len(name)] = "/" THEN SubSeq(name, 1, Len(name) - 1)
    ELSE DirOf(SubSeq(name, 1, Len(name) - 1))

\* the directory of the path exists: it is extract_path itself, or a
\* directory that archive.extract has created for a file
ParentExists(files, name) ==
    DirOf(name) = E \/ \E n \in DOMAIN files : DirOf(n) = DirOf(name)

Failure(book_id, original_name, extracted_name, message, files) ==
    [held |-> TRUE, raised |-> FALSE, book_id |-> book_id, success |-> FALSE,
     original_filename |-> original_name, extracted_filename |-> extracted_name,
     file_size |-> 0, error_message |-> message, files |-> files]

\* The shard archive of the book is "missing", is no zip archive ("bad_zip"),
\* lacks the member ("no_member") or is "ok".  fault is "lookup" when the
\* SELECT of the record raises and "rename" when the rename does; replaces
\* says whether a rename onto an existing file replaces it (POSIX) or raises
\* FileExistsError (Windows).  A "/" in a name is a path separator:
\* archive.extract creates the directories of the member it unpacks, the
\* rename does not create the directory of its target.
ExtractBookResult_NoArchiveCheck(book_id, archive, fault, replaces) ==
    IF fault = "lookup"
    THEN [held |-> TRUE, raised |-> TRUE, book_id |-> book_id, success |-> FALSE,
          original_filename |-> E, extracted_filename |-> E, file_size |-> 0,
          error_message |-> "StorageError", files |-> outFiles]
    ELSE IF book_id \notin DOMAIN books
    THEN Failure(book_id, E, E, "not_found", outFiles)
    ELSE LET rec == books[book_id]
             original_name == OriginalFilename(book_id, rec)
             extracted_name == ExtractedFilename(rec)
             unpacked == WithFile(outFiles, original_name, FileOf(book_id))
         IN  IF archive = "missing"
             THEN Failure(book_id, original_name, extracted_name, "FileNotFoundError", outFiles)
             ELSE IF archive = "bad_zip"
             THEN Failure(book_id, original_name, extracted_name, "BadZipFile", outFiles)
             ELSE IF archive = "no_member"
             THEN Failure(book_id, original_name, extracted_name, "KeyError", outFiles)
             ELSE IF fault = "rename"
             THEN Failure(book_id, original_name, extracted_name, "OSError", unpacked)
             ELSE IF ~ParentExists(unpacked, extracted_name)
             THEN Failure(book_id, original_name, extracted_name, "FileNotFoundError",
                          unpacked)
             ELSE IF extracted_name \in DOMAIN outFiles /\ ~replaces
             THEN Failure(book_id, original_name, extracted_name, "FileExistsError", unpacked)
             ELSE [held |-> TRUE, raised |-> FALSE, book_id |-> book_id,
                   success |-> TRUE, original_filename |-> original_name,
                   extracted_filename |-> extracted_name,
                   file_size |-> MemberSize(book_id), error_message |-> "None",
                   files |-> WithFile(WithoutFile(unpacked, original_name), extracted_name,
                                      FileOf(book_id))]

\* extract_book (book_index.py:390-470): the ExtractionResult, or the
\* exception, and the output directory after the call.  The lookup of the
\* record (400-412) is outside the try; everything after it is inside.
ExtractBookResult(book_id, archive, fault, replaces) ==
    IF fault = "lookup"
    THEN [held |-> TRUE, raised |-> TRUE, book_id |-> book_id, success |-> FALSE,
          original_filename |-> E, extracted_filename |-> E, file_size |-> 0,
          error_message |-> "StorageError", files |-> outFiles]
    ELSE IF book_id \notin DOMAIN books
    THEN Failure(book_id, E, E, "not_found", outFiles)
    ELSE LET rec == books[book_id]
             original_name == OriginalFilename(book_id, rec)
             extracted_name == ExtractedFilename(rec)
             unpacked == WithFile(outFiles, original_name, FileOf(book_id))
         IN  IF archive = "missing"
             THEN Failure(book_id, original_name, extracted_name, "archive_not_found", outFiles)
             ELSE IF archive = "bad_zip"
             THEN Failure(book_id, original_name, extracted_name, "BadZipFile", outFiles)
             ELSE IF archive = "no_member"
             THEN Failure(book_id, original_name, extracted_name, "KeyError", outFiles)
             ELSE IF fault = "rename"
             THEN Failure(book_id, original_name, extracted_name, "OSError", unpacked)
             ELSE IF ~ParentExists(unpacked, extracted_name)
             THEN Failure(book_id, original_name, extracted_name, "FileNotFoundError",
                          unpacked)
             ELSE IF extracted_name \in DOMAIN outFiles /\ ~replaces
             THEN Failure(book_id, original_name, extracted_name, "FileExistsError", unpacked)
             ELSE [held |-> TRUE, raised |-> FALSE, book_id |-> book_id,
                   success |-> TRUE, original_filename |-> original_name,
                   extracted_filename |-> extracted_name,
                   file_size |-> MemberSize(book_id), error_message |-> "None",
                   files |-> WithFile(WithoutFile(unpacked, original_name), extracted_name,
                                      FileOf(book_id))]

ArchiveStates == {"ok", "missing", "bad_zip", "no_member"}

\* a call of extract_book with an id of the store, or with one that no
\* BookRecord has.  extraction holds what the caller gets, with the state of
\* the shard archive and the output directory as the call found them;
\* outFiles is the output directory as the call leaves it.
ExtractBook ==
    /\ pc = "idle"
    /\ Cardinality(DOMAIN outFiles) <= MaxFiles
    /\ \E book_id \in DOMAIN books \cup {0}, archive \in ArchiveStates,
          fault \in {"none", "lookup", "rename"}, replaces \in BOOLEAN :
          /\ fault # "none" => faults < MaxFaults
          /\ faults' = IF fault = "none" THEN faults ELSE faults + 1
          /\ extraction' = [ExtractBookResult(book_id, archive, fault, replaces)
                               EXCEPT !.files = outFiles] @@ [archive |-> archive]
          /\ outFiles' = ExtractBookResult(book_id, archive, fault, replaces).files
    /\ event' = [op |-> "extract_book", rebuild |-> FALSE]
    /\ result' = NoResult
    /\ UNCHANGED <<bundle, storeVars, tmpExists, pc, loopVars, run, prev, calls,
                   cli>>

\* ------------------------------------------- extract_book, step by step

\* extract_book as its calls on the file system, for callers that run at the
\* same time on a book whose shard archive and member are present.  A file
\* that is open for writing is held at the name it has now (at): a rename of
\* the file by another caller moves what is being written with it.  The
\* size of a file that is still being written is taken as 0.
CallEvent ==
    /\ event' = [op |-> "extract_book", rebuild |-> FALSE]
    /\ result' = NoResult
    /\ extraction' = NoExtraction
    /\ UNCHANGED <<bundle, storeVars, tmpExists, pc, loopVars, faults, run, prev, cli>>

TempName(book_id) == OriginalFilename(book_id, books[book_id])

TargetName(book_id) == ExtractedFilename(books[book_id])

\* the lookup of the record and the paths (book_index.py:400-438); a second
\* caller asks for the book of the first
CallBegin(p) ==
    /\ pc = "idle"
    /\ calls[p].pc = "idle"
    /\ \E book_id \in DOMAIN books :
          /\ \A q \in Callers \ {p} : calls[q].pc # "idle" => calls[q].book_id = book_id
          /\ calls' = [calls EXCEPT ![p] = [NoCall EXCEPT !.pc = "begun",
                                                         !.book_id = book_id]]
    /\ UNCHANGED outFiles
    /\ CallEvent

\* archive.extract (book_index.py:443) opens "{id}.{format}" for writing: the
\* file is created, or the existing one is cut to length 0
CallOpen(p) ==
    /\ calls[p].pc = "begun"
    /\ LET temp == TempName(calls[p].book_id)
       IN  /\ outFiles' = WithFile(outFiles, temp, [book |-> calls[p].book_id, size |-> 0])
           /\ calls' = [calls EXCEPT ![p].pc = "opened", ![p].at = temp]
    /\ CallEvent

\* archive.extract has copied the member into the file it opened
CallWrite(p) ==
    /\ calls[p].pc = "opened"
    /\ outFiles' = IF calls[p].at \in DOMAIN outFiles
                   THEN [outFiles EXCEPT ![calls[p].at] = FileOf(calls[p].book_id)]
                   ELSE outFiles
    /\ calls' = [calls EXCEPT ![p].pc = "written", ![p].at = << >>]
    /\ CallEvent

\* temp_path.rename(extracted_path) (book_index.py:446, POSIX rename): a
\* missing "{id}.{format}" raises FileNotFoundError, which the handler at 460
\* turns into a failure result; otherwise the file gets the final name and
\* replaces the file that had it
CallRename(p) ==
    /\ calls[p].pc = "written"
    /\ LET temp == TempName(calls[p].book_id)
           target == TargetName(calls[p].book_id)
       IN  IF temp \notin DOMAIN outFiles
           THEN /\ calls' = [calls EXCEPT ![p].pc = "done",
                                          ![p].error_message = "FileNotFoundError"]
                /\ UNCHANGED outFiles
           ELSE /\ outFiles' = WithFile(WithoutFile(outFiles, temp), target, outFiles[temp])
                /\ calls' = [q \in Callers |->
                               IF q = p THEN [calls[q] EXCEPT !.pc = "renamed"]
                               ELSE IF calls[q].pc = "opened" /\ calls[q].at = temp
                               THEN [calls[q] EXCEPT !.at = target]
                               ELSE IF calls[q].pc = "opened" /\ calls[q].at = target
                               THEN [calls[q] EXCEPT !.at = << >>]
                               ELSE calls[q]]
    /\ CallEvent

\* extracted_path.stat().st_size and the success result (book_index.py:448-458)
CallReturn(p) ==
    /\ calls[p].pc = "renamed"
    /\ LET target == TargetName(calls[p].book_id)
       IN  calls' = IF target \in DOMAIN outFiles
                    THEN [calls EXCEPT ![p].pc = "done", ![p].success = TRUE,
                                       ![p].file_size = outFiles[target].size]
                    ELSE [calls EXCEPT ![p].pc = "done",
                                       ![p].error_message = "FileNotFoundError"]
    /\ UNCHANGED outFiles
    /\ CallEvent

Next ==
    \/ Construct
    \/ CreateIndex
    \/ Truncate
    \/ TruncateFault
    \/ TruncateRaises
    \/ ExtractIndexArchive
    \/ NextIndexFile
    \/ AllFilesDone
    \/ LineSkipped
    \/ LineOnDeadSession
    \/ LineMergeFault
    \/ LineStored
    \/ LineStoredBatchCommit
    \/ LineStoredBatchConflict
    \/ LineStoredBatchFault
    \/ FinalCommit
    \/ FinalCommitRaises
    \/ FinalCommitFault
    \/ StoreChecksum
    \/ StoreChecksumFault
    \/ RebuildFts
    \/ RebuildFtsNoModule
    \/ RebuildFtsFault
    \/ ReplaceBundle
    \/ DesyncFts
    \/ Search

Spec == Init /\ [][Next]_vars

\* no extract_book call has written a file yet
BeforeExtraction == outFiles = NoFiles

\* The readers of the store, search page by page and extract_book, on the
\* stores that builds without injected storage faults and without a change of
\* the bundle or of the index from outside leave; the builds come before the
\* first file that extract_book writes.
ReaderNext ==
    \/ BeforeExtraction /\ Construct
    \/ BeforeExtraction /\ CreateIndex
    \/ Truncate
    \/ ExtractIndexArchive
    \/ NextIndexFile
    \/ AllFilesDone
    \/ LineSkipped
    \/ LineOnDeadSession
    \/ LineStored
    \/ LineStoredBatchCommit
    \/ LineStoredBatchConflict
    \/ FinalCommit
    \/ FinalCommitRaises
    \/ StoreChecksum
    \/ SearchPaged
    \/ ExtractBook

ReaderSpec == Init /\ [][ReaderNext]_vars

\* The reader on a catalog that may hold a format with a path separator.
PathsInit ==
    /\ bundle \in {Missing, SlashBundle} \cup BundleIds
    /\ books = NoBooks
    /\ search = {}
    /\ fts = {}
    /\ \E fts5 \in BOOLEAN : ftsExists = fts5 /\ trigExists = fts5
    /\ checksum = NoChecksum
    /\ tmpExists = TRUE
    /\ pc = "idle"
    /\ extracted = Missing
    /\ todo = {}
    /\ curFile = 0
    /\ lineNo = 0
    /\ processed = 0
    /\ sess = NewSession
    /\ faults = 0
    /\ run = NoRun
    /\ prev = NoPrev
    /\ event = NoEvent
    /\ result = NoResult
    /\ outFiles = NoFiles
    /\ extraction = NoExtraction
    /\ calls = [p \in Callers |-> NoCall]
    /\ cli = NoCommand

PathsSpec == PathsInit /\ [][ReaderNext]_vars

\* no extract_book call has begun
NoCalls == \A p \in Callers : calls[p].pc = "idle"

\* Two extract_book calls for one book at the same time, on the stores that
\* builds without injected storage faults leave; the builds come before the
\* calls.
ConcurrentNext ==
    \/ NoCalls /\ Construct
    \/ NoCalls /\ CreateIndex
    \/ Truncate
    \/ ExtractIndexArchive
    \/ NextIndexFile
    \/ AllFilesDone
    \/ LineSkipped
    \/ LineOnDeadSession
    \/ LineStored
    \/ LineStoredBatchCommit
    \/ LineStoredBatchConflict
    \/ FinalCommit
    \/ FinalCommitRaises
    \/ StoreChecksum
    \/ \E p \in Callers : CallBegin(p)
    \/ \E p \in Callers : CallOpen(p)
    \/ \E p \in Callers : CallWrite(p)
    \/ \E p \in Callers : CallRename(p)
    \/ \E p \in Callers : CallReturn(p)

ConcurrentSpec == Init /\ [][ConcurrentNext]_vars

\* DatabaseManager initialisations and rebuild_fts calls, each succeeding or
\* failing, between builds without injected storage faults, on a SQLite
\* build that has FTS5.
FtsNext ==
    \/ Construct
    \/ CreateIndex
    \/ Truncate
    \/ TruncateRaises
    \/ ExtractIndexArchive
    \/ NextIndexFile
    \/ AllFilesDone
    \/ LineSkipped
    \/ LineOnDeadSession
    \/ LineStored
    \/ LineStoredBatchCommit
    \/ LineStoredBatchConflict
    \/ FinalCommit
    \/ FinalCommitRaises
    \/ StoreChecksum
    \/ InitFts
    \/ InitFtsFault
    \/ RebuildFts
    \/ RebuildFtsCreates
    \/ RebuildFtsFault

FtsSpec == Init /\ [][FtsNext]_vars

\* no `index --force` command is in progress
NoCommandRuns == cli.state # "running"

\* The command `index --force` among builds without injected storage faults,
\* with the bundle file replaced or removed from outside.
CliNext ==
    \/ NoCommandRuns /\ Construct
    \/ NoCommandRuns /\ CreateIndex
    \/ IndexForce
    \/ IndexForceEnd
    \/ Truncate
    \/ ExtractIndexArchive
    \/ NextIndexFile
    \/ AllFilesDone
    \/ LineSkipped
    \/ LineOnDeadSession
    \/ LineStored
    \/ LineStoredBatchCommit
    \/ LineStoredBatchConflict
    \/ FinalCommit
    \/ FinalCommitRaises
    \/ StoreChecksum
    \/ ReplaceBundle

CliSpec == Init /\ [][CliNext]_vars

\* ------------------------------------------------------------- properties

RunEnded == pc = "idle" /\ run.outcome \in {"ok", "raised"}

\* the run that ended was not disturbed: no injected storage fault, and the
\* bundle file was not replaced since the run started
Undisturbed == run.fault = "none" /\ run.stable

StoreUnchanged == UNCHANGED <<books, search, checksum>>

\* C1, as stated: after a create_index run has completed successfully,
\* constructing BookIndex again while the bundle is unchanged enters no rebuild
\* and writes nothing to books, book_search or settings, for every bundle.
C1_Original ==
    [][(event'.op = "construct" /\ run.outcome = "ok" /\ run.stable)
          => (~event'.rebuild /\ pc' = "idle" /\ run' = run /\ StoreUnchanged)]_vars

\* C1, amended: the same, provided the completed run has left at least one
\* BookRecord in the store (with an empty books table the builder always
\* rebuilds, whatever the checksum).
C1_ChecksumGating ==
    [][(event'.op = "construct" /\ run.outcome = "ok" /\ run.stable
          /\ Cardinality(DOMAIN books) > 0)
          => (~event'.rebuild /\ pc' = "idle" /\ run' = run /\ StoreUnchanged)]_vars

C1_Witness ==
    /\ event.op = "construct"
    /\ ~event.rebuild
    /\ pc = "idle"
    /\ run.outcome = "ok"
    /\ run.stable
    /\ Cardinality(DOMAIN books) > 0

\* the lines of entry file f of bundle b that reach the store, as records
StoredLine(b, f, k) ==
    LET fields == Bundles[b].files[f].lines[k]
        d == ParseBookMetadata(fields, ArchiveName(Bundles[b].files[f].stem))
    IN  IF ~IsBlankLine(fields) /\ d.ok /\ IsIntText(d.bookid)
        THEN [ok |-> TRUE, rec |-> BookRecordOf(d)]
        ELSE [ok |-> FALSE]

LinesOf(b, f) == 1..Len(Bundles[b].files[f].lines)

FilesOf(b) == 1..Len(Bundles[b].files)

ValidIds(b) ==
    UNION {{StoredLine(b, f, k).rec.id :
               k \in {j \in LinesOf(b, f) : StoredLine(b, f, j).ok}} : f \in FilesOf(b)}

\* r is the record of the last valid line with its id in some entry file of b
IsLastLineOfItsId(b, r) ==
    \E f \in FilesOf(b) : \E k \in LinesOf(b, f) :
        /\ StoredLine(b, f, k).ok
        /\ StoredLine(b, f, k).rec = r
        /\ \A j \in LinesOf(b, f) :
              (j > k /\ StoredLine(b, f, j).ok) => StoredLine(b, f, j).rec.id # r.id

\* C2: indexing a catalog in which valid lines share an id leaves exactly one
\* BookRecord per distinct valid id, holding the fields of the last such line;
\* the number of BookRecords is the number of distinct valid ids.
C2_UpsertLastLineWins ==
    (RunEnded /\ Undisturbed /\ run.bundle # Missing)
        => /\ DOMAIN books = ValidIds(run.bundle)
           /\ \A i \in DOMAIN books : IsLastLineOfItsId(run.bundle, books[i])

NoDupIds(rows) == \A r1 \in rows : \A r2 \in rows : r1.id = r2.id => r1 = r2

\* C3: a second create_index on the same unchanged bundle leaves books and
\* book_search with the rows the first run had left, and no id twice in either.
C3_IdempotentRebuild ==
    (RunEnded /\ run.outcome = "ok" /\ Undisturbed /\ prev.held)
        => /\ books = prev.books
           /\ search = prev.search
           /\ NoDupIds(search)

\* C4: in every committed state book_search holds exactly one row for each
\* BookRecord id.
C4_OneProjectionRowPerBook ==
    faults = 0 =>
        \A i \in DOMAIN books : Cardinality({r \in search : r.id = i}) = 1

\* C5: whenever create_index ends after having created the scratch directory,
\* normally or with an exception, the scratch directory no longer exists.
C5_ScratchRemoved == (RunEnded /\ run.madeTmp) => ~tmpExists

\* C6: a storage error of a record write or of a batch commit reaches the
\* caller of create_index as an exception (and no checksum is stored).
C6_StorageErrorPropagates ==
    (RunEnded /\ run.fault \in {"merge", "batch_commit"}) => run.outcome = "raised"

C8_MissingBundle ==
    [][(bundle = Missing /\ event'.op \in {"construct", "create_index"})
          => /\ pc' = "idle"
             /\ StoreUnchanged
             /\ fts' = fts
             /\ (event'.op = "construct" => ~event'.rebuild /\ run' = run)
             /\ (event'.op = "create_index"
                    => run'.outcome = "raised" /\ run'.error = "IndexNotFoundError")]_vars

C8_Witness ==
    /\ bundle = Missing
    /\ event.op = "create_index"
    /\ run.error = "IndexNotFoundError"
    /\ Cardinality(DOMAIN books) > 0
    /\ search # {}
    /\ checksum # NoChecksum

\* value contains term, compared case-insensitively
Contains(value, term) ==
    \E i \in 0..(Len(value) - Len(term)) :
        \A j \in 1..Len(term) : LowerC(value[i + j]) = LowerC(term[j])

SubstringIds(field, term) ==
    {i \in DOMAIN books : Contains(FieldOf(books[i], field), term)}

HasWildcard(term) == \E i \in 1..Len(term) : term[i] \in {"%", "_"}

TriedFts(path) == path \in {"fts_hit", "fts_empty", "fts_raised"}

FellBack(path) == path \in {"fts_empty", "fts_raised"}

\* the result is what substring matching on the one field gives: every record
\* that contains the term is returned when the other field has no term, and
\* only such records are returned when the term has no LIKE wildcard
SubstringResult(field, term, otherTerm) ==
    /\ otherTerm = E => SubstringIds(field, term) \subseteq result.ids
    /\ ~HasWildcard(term) => result.ids \subseteq SubstringIds(field, term)

C11_FtsFailureHidden ==
    result.held =>
        LET q == result.query
        IN  /\ ~result.raised
            /\ (Len(q.title) > 2 /\ FtsRaises("title", q.title))
                  => /\ result.titlePath = "fts_raised"
                     /\ SubstringResult("title", q.title, q.author)
            /\ (Len(q.author) > 2 /\ FtsRaises("author", q.author))
                  => /\ result.authorPath = "fts_raised"
                     /\ SubstringResult("author", q.author, q.title)

C11_Witness ==
    /\ result.held
    /\ ~ftsExists
    /\ result.query.title = TKaren
    /\ result.titlePath = "fts_raised"
    /\ ~result.raised
    /\ \E i \in result.ids : books[i].title = TAnna

Min(a, b) == IF a < b THEN a ELSE b

Max(a, b) == IF a < b THEN b ELSE a

\* the records that pass the filters of a query without title and author term
FilteredSet(q) ==
    {i \in DOMAIN books : q.language = E \/ books[i].language = q.language}

\* C12: total_count is the number of records of the whole filtered set,
\* whatever limit and offset are, and the page holds
\* min(limit, max(0, total_count - offset)) books.
C12_TotalAndPage ==
    (result.held /\ result.query.title = E /\ result.query.author = E) =>
        LET q == result.query
        IN  /\ result.total_count = Cardinality(FilteredSet(q))
            /\ Len(result.books) = Min(q.limit, Max(0, result.total_count - q.offset))
            /\ \A k \in 1..Len(result.books) : result.books[k] \in FilteredSet(q)

C12_Witness ==
    /\ result.held
    /\ result.query = Paged(E, 3, 3)
    /\ result.total_count = 4
    /\ Len(result.books) = 1

\* C13: the books of a SearchResult are in ascending order of their id.
C13_AscendingIds ==
    result.held =>
        \A k \in 1..(Len(result.books) - 1) : result.books[k] < result.books[k + 1]

C15_RebuildRestoresParity ==
    event.op \in {"rebuild_fts_ok", "rebuild_fts_repair"} => (ftsExists /\ fts = search)

C15_Witness ==
    /\ event.op = "rebuild_fts_repair"
    /\ search # {}
    /\ fts = search

\* a line that the parser rejects: fewer than 12 fields, or no id, title or
\* author left after cleaning
Rejected(fields) ==
    \/ Len(fields) < 12
    \/ Strip(fields[6]) = E
    \/ Strip(fields[3]) = E
    \/ Strip(Replace(Replace(Strip(fields[1]), ",", <<" ">>), ":", E)) = E

\* C20: at a rejected line the builder stores nothing, raises nothing and goes
\* on with the next line of the entry file; a run that nothing disturbs stores
\* the valid line that follows the rejected one in entry file a of bundle 1.
C20_RejectedLineSkipped ==
    [][/\ (AtLine /\ Rejected(CurLines[lineNo]))
            => /\ UNCHANGED <<books, search, fts, sess, processed, curFile>>
               /\ pc' = "line"
               /\ lineNo' = lineNo + 1
               /\ run'.outcome = "running"
       /\ (pc' = "idle" /\ run'.outcome = "ok" /\ run'.fault = "none" /\ run'.bundle = 1)
            => \E i \in DOMAIN books' : books'[i].title = TKaren]_vars

C20_Witness ==
    /\ pc = "line"
    /\ extracted = 1
    /\ lineNo = 3
    /\ lineNo <= Len(CurLines)
    /\ Rejected(CurLines[2])
    /\ CurLines[3] = LineKaren

\* C16: extract_book never raises to its caller; every failure is a returned
\* ExtractionResult with success = False.
C16_ExtractNeverRaises == extraction.held => ~extraction.raised

\* C17: when no BookRecord has the id the result is a failure with the "not
\* found" message, when the shard archive of the record does not exist it is
\* a failure with the archive-missing message, and in both cases the output
\* directory holds the files it held before the call.
C17_MissingBookOrArchive ==
    (extraction.held /\ ~extraction.raised) =>
        /\ extraction.book_id \notin DOMAIN books =>
              /\ ~extraction.success
              /\ extraction.error_message = "not_found"
              /\ outFiles = extraction.files
        /\ (extraction.book_id \in DOMAIN books /\ extraction.archive = "missing") =>
              /\ ~extraction.success
              /\ extraction.error_message = "archive_not_found"
              /\ outFiles = extraction.files

\* an extraction of a book whose shard archive is missing, into a directory
\* that already holds a file
C17_Witness ==
    /\ extraction.held
    /\ ~extraction.raised
    /\ extraction.book_id \in DOMAIN books
    /\ extraction.archive = "missing"
    /\ outFiles # NoFiles

\* C18: a successful extraction never overwrites the file that the
\* extraction of a book with another id produced.
C18_NoOverwriteOfOtherBook ==
    (/\ extraction.held
     /\ ~extraction.raised
     /\ extraction.success
     /\ extraction.extracted_filename \in DOMAIN extraction.files) =>
        extraction.files[extraction.extracted_filename].book = extraction.book_id

\* t is s without the characters that are not alphanumeric, space, hyphen or
\* underscore, trimmed
IsCleaned(s, t) ==
    LET kept == SelectSeq(s, LAMBDA c : IsAlnum(c) \/ c = " " \/ c = "-" \/ c = "_")
    IN  /\ t # E => (t[1] # " " /\ t[Len(t)] # " ")
        /\ \E i \in 0..Len(kept) : \E j \in i..Len(kept) :
              /\ t = SubSeq(kept, i + 1, j)
              /\ \A k \in (1..i) \cup ((j + 1)..Len(kept)) : kept[k] = " "

\* C19: on success the output file is named "{A} - {T}.{format}" with A and T
\* the cleaned author and title of the record, and file_size is the byte size
\* of the extracted archive member.
C19_NameAndSize ==
    (extraction.held /\ ~extraction.raised /\ extraction.success) =>
        LET rec == books[extraction.book_id]
            name == extraction.extracted_filename
        IN  /\ \E a \in 0..Len(name), t \in 0..Len(name) :
                  /\ a + 3 + t + 1 + Len(rec.format) = Len(name)
                  /\ IsCleaned(rec.author, SubSeq(name, 1, a))
                  /\ SubSeq(name, a + 1, a + 3) = <<" ", "-", " ">>
                  /\ IsCleaned(rec.title, SubSeq(name, a + 4, a + 3 + t))
                  /\ SubSeq(name, a + 4 + t, Len(name)) = <<".">> \o rec.format
            /\ name \in DOMAIN outFiles
            /\ outFiles[name].book = extraction.book_id
            /\ extraction.file_size = MemberSize(extraction.book_id)
            /\ outFiles[name].size = extraction.file_size

\* a successful extraction of a book whose title loses characters and is
\* trimmed
C19_Witness ==
    /\ extraction.held
    /\ ~extraction.raised
    /\ extraction.success
    /\ LET title == books[extraction.book_id].title
           kept == SelectSeq(title, IsSafeChar)
       IN  kept # title /\ kept[Len(kept)] = " "

\* C21: after a create_index run that failed after its truncate, the next
\* staleness check made while the bundle is present reports that a rebuild is
\* required, also when the stored checksum equals the bundle's fingerprint.
C21_FailedRunIsStale ==
    [][(/\ event'.op = "construct"
        /\ RunEnded
        /\ run.outcome = "raised"
        /\ run.madeTmp
        /\ bundle # Missing) => event'.rebuild]_vars

\* C22: after a successful create_index the stored checksum is the
\* fingerprint of the bundle that the run unpacked and indexed, also when the
\* bundle file was replaced while the run was in progress.
C22_ChecksumOfIndexedBundle ==
    (RunEnded /\ run.outcome = "ok" /\ event.op = "step") => checksum = Md5(run.bundle)

\* C23: in every committed state of the store, the states left by a rebuild
\* that failed midway included, the ids present in BookRecord are the ids
\* present in SearchProjection.
C23_SameIds == DOMAIN books = {r.id : r \in search}

\* a run that failed after it had committed records
C23_Witness ==
    /\ RunEnded
    /\ run.outcome = "raised"
    /\ run.madeTmp
    /\ DOMAIN books # {}
    /\ prev.held

\* the step commits new records and changes none that the store held
AddsRecords ==
    /\ DOMAIN books \subseteq DOMAIN books'
    /\ DOMAIN books' # DOMAIN books
    /\ \A i \in DOMAIN books : books'[i] = books[i]
    /\ search \subseteq search'

\* the title and author conditions of the terms t on the store
TermConditions(t) ==
    [title |-> IF t.title # E THEN BuildTitleCondition(t.title) ELSE NoCondition,
     author |-> IF t.author # E THEN BuildAuthorCondition(t.author) ELSE NoCondition]

\* record i holds every term of t as a substring of the term's field
HoldsTerms(i, t) ==
    /\ t.title # E => Contains(books[i].title, t.title)
    /\ t.author # E => Contains(books[i].author, t.author)

\* every record that holds the terms and was matched before the step is
\* matched after it
MatchesKept(t) ==
    LET before == TermConditions(t)
        after == TermConditions(t)'
    IN  \A i \in before.title.ids \cap before.author.ids :
            HoldsTerms(i, t) => i \in after.title.ids \cap after.author.ids

\* a field of t whose FTS query gave no id, or raised, before the step gives
\* ids after it
FallbackLeft(t) ==
    LET before == TermConditions(t)
        after == TermConditions(t)'
    IN  \/ FellBack(before.title.path) /\ after.title.path = "fts_hit"
        \/ FellBack(before.author.path) /\ after.author.path = "fts_hit"

\* C24, as stated: search is monotone in the store contents: for a fixed query
\* with a title or author term, adding records never removes from the matches
\* a record that holds the term as a substring.
C24_Original == [][AddsRecords => \A t \in Terms : MatchesKept(t)]_vars

\* C24, amended: the same, unless the FTS phrase query of a term longer than 2
\* characters, which gave no id or raised before the addition, gives ids after
\* it (the condition then changes from the substring match to the FTS ids).
C24_MonotoneWithinPath ==
    [][AddsRecords => \A t \in Terms : FallbackLeft(t) \/ MatchesKept(t)]_vars

\* both books titled "Anna Karenina ..." are matched by the FTS query "Anna",
\* the second of them added by a later commit than the first
C24_Witness ==
    /\ BuildTitleCondition(<<"A","n","n","a">>).path = "fts_hit"
    /\ {1, 4} \subseteq BuildTitleCondition(<<"A","n","n","a">>).ids
    /\ books[1].archive_file # books[4].archive_file

CallsDone == \A p \in Callers : calls[p].pc = "done"

\* C25: two extract_book calls for the same existing book, whose archive and
\* member are present, that run at the same time both return success=True,
\* and afterwards the final file exists with the full content of the member.
C25_ConcurrentExtraction ==
    /\ \A p \in Callers : calls[p].pc = "done" => calls[p].success
    /\ CallsDone =>
          LET book_id == calls[1].book_id
          IN  /\ TargetName(book_id) \in DOMAIN outFiles
              /\ outFiles[TargetName(book_id)] = FileOf(book_id)

\* C26: after any sequence of DatabaseManager initialisations and rebuild_fts
\* calls, each of which may succeed or fail, the three sync triggers exist
\* whenever the table book_search_fts exists.
C26_TriggersWithTable == ftsExists => trigExists

\* C28: `index --force` never destroys the existing index without a
\* successful rebuild: when the bundle is missing or the rebuild raises, the
\* BookRecords stored before the command are at the store location when the
\* command has ended.
C28_ForceKeepsIndex ==
    (/\ cli.state = "ended"
     /\ event.op \in {"index_force", "index_force_end"}
     /\ (cli.missing \/ cli.exit = 1)) => books = cli.before

\* the ids of the valid lines of entry file f of bundle b
ValidIdsOfFile(b, f) ==
    {StoredLine(b, f, k).rec.id : k \in {j \in LinesOf(b, f) : StoredLine(b, f, j).ok}}

\* C27: within one entry file a commit is issued after every BatchSize-th
\* stored record and once more at the end of the file; when
\* _process_index_file returns normally every valid record of the file is
\* committed, and when it stops with a failure what the completed batch
\* commits have stored stays committed.
C27_BatchCommits ==
    [][/\ (pc = "line" /\ processed' = processed + 1 /\ processed' % BatchSize = 0)
             => sess'.newBooks = << >>
       /\ (AtEof /\ pc' = "files")
             => /\ sess'.newBooks = << >>
                /\ ValidIdsOfFile(extracted, curFile) \subseteq DOMAIN books'
       /\ (pc = "line" /\ pc' = "idle")
             => (books' = books /\ search' = search)]_vars

\* the path names a file directly inside the directory it is relative to
IsDirectChild(name) ==
    /\ name \notin {E, <<".">>, <<".", ".">>}
    /\ \A i \in 1..Len(name) : name[i] # "/"

\* C29: for every record the builder can store, the intermediate
\* "{id}.{format}" file and the final file of extract_book lie directly inside
\* the output directory, whatever the format field contains.
C29_PathsInsideOutputDir ==
    (extraction.held /\ ~extraction.raised /\ extraction.book_id \in DOMAIN books) =>
        /\ IsDirectChild(extraction.original_filename)
        /\ IsDirectChild(extraction.extracted_filename)
        /\ \A n \in DOMAIN outFiles : IsDirectChild(n)

\* the text without the characters of cs
Without(s, cs) == SelectSeq(s, LAMBDA c : c \notin cs)

\* the text with every comma turned into a blank
CommasBlanked(s) == [i \in 1..Len(s) |-> IF s[i] = "," THEN " " ELSE s[i]]

\* the parser is at a line of at least 12 fields and returns a mapping
ParsedLongLine == AtLine /\ Len(CurLines[lineNo]) >= 12 /\ CurData.ok

\* genre, title and size as the parser leaves them
CleanedRest ==
    LET f == CurLines[lineNo]
    IN  /\ CurData.genre = Strip(Without(f[2], {":"}))
        /\ CurData.title = Strip(f[3])
        /\ CurData.size = IF IsIntText(f[7]) THEN IntOf(f[7]) ELSE 0

\* C30 as stated: the cleaned author is field 0 with every comma and colon
\* removed and then trimmed, the genre is field 1 with colons removed and
\* trimmed, the title is field 2 trimmed, the size is the integer of field 6 or 0.
C30_Original ==
    ParsedLongLine =>
        /\ CurData.author = Strip(Without(CurLines[lineNo][1], {",", ":"}))
        /\ CleanedRest

\* C30: for every line of at least 12 fields that the parser accepts, the
\* cleaned author is field 0 with every comma turned into a blank and every
\* colon removed, then trimmed; the genre is field 1 with colons removed and
\* trimmed; the title is field 2 trimmed; the size is the integer value of
\* field 6, or 0 when field 6 is not an integer.
C30_Cleaning ==
    ParsedLongLine =>
        /\ CurData.author = Strip(Without(CommasBlanked(CurLines[lineNo][1]), {":"}))
        /\ CleanedRest

C30_Witness ==
    /\ ParsedLongLine
    /\ \E i \in 1..Len(CurLines[lineNo][1]) : CurLines[lineNo][1][i] = ","
    /\ CurData.author # Strip(CurLines[lineNo][1])

====
